---------------------------- MODULE Spec2Model ----------------------------
(***************************************************************************)
(* Client side of the smart-transport negotiation:                         *)
(*   - git-protocol/src/fetch.rs : fetch(), the service handshake with the *)
(*     credential retry, capability post-processing and the protocol/refs  *)
(*     assertions;                                                         *)
(*   - gix/src/remote/connection/handshake.rs : Connection::handshake()    *)
(*     and extract_object_format();                                        *)
(*   - gix/src/remote/connection/ref_map.rs : Connection::ref_map(),       *)
(*     ref_map_inner() and fetch_refs().                                   *)
(* The transport, the authenticator, the delegate hook and the server are  *)
(* the environment: each of their answers is drawn from a small set.       *)
(***************************************************************************)
EXTENDS Integers, Sequences, FiniteSets, TLC

VARIABLES
    pc,             \* position of the one flow of control
    caller,         \* "none" | "fetch" | "ref_map": the entry point in progress
    log,            \* every transport operation and authenticator action, in order
    identity,       \* identity installed on the transport ("none" when none)
    filled,         \* identity returned by Fill ("none" before)
    err1,           \* error of the first service-request attempt
    err2,           \* error of the retry
    response,       \* SetServiceResponse of the successful attempt
    capabilities,   \* Capabilities.available after hook and stamping
    outcome,        \* the handshake outcome (refs taken out by fetch_refs)
    args,           \* arguments of the ref_map call and what it derives from them
    request,        \* features and arguments of the ls-refs request sent
    remote_refs,    \* the reference list obtained from the remote
    matched,        \* validated match rows of gix_refspec (res.mappings)
    match_items,    \* the match items handed to MatchGroup::match_remotes
    res,            \* result of ref_map_inner, held across the teardown
    teardown,       \* result of the end-of-interaction notification
    result          \* value the entry point returned, or how it ended

vars == << pc, caller, log, identity, filled, err1, err2, response, capabilities,
           outcome, args, request, remote_refs, matched, match_items, teardown, res, result >>

-----------------------------------------------------------------------------
(* Bounds of the model *)

\* longest list of configured fetch refspecs (remote.fetch_specs)
MaxFetchSpecs == 2

-----------------------------------------------------------------------------
(* Values *)

None == [some |-> FALSE, v |-> <<>>]
Some(x) == [some |-> TRUE, v |-> <<x>>]
Unwrap(o) == o.v[1]

\* client::Error: Io with io::ErrorKind::PermissionDenied, Io with another kind,
\* or no Io error at all.  origin names the operation that failed, which tells
\* the error of one attempt from the error of another
TransportErrors(origin) ==
    { [io |-> TRUE, kind |-> "PermissionDenied", msg |-> origin],
      [io |-> TRUE, kind |-> "ConnectionReset", msg |-> origin],
      [io |-> FALSE, kind |-> "Protocol", msg |-> origin] }

\* an error of an operation whose error kind decides nothing
TransportError(origin) == [io |-> FALSE, kind |-> "Protocol", msg |-> origin]

IsPermissionDenied(e) == e.io /\ e.kind = "PermissionDenied"

Identities == {"alice", "bob"}

NoError == [io |-> FALSE, kind |-> "none", msg |-> "none"]


-----------------------------------------------------------------------------
(* References (fetch.rs, enum Ref).  A ref name is the sequence of its path *)
(* components; an object id is a number, 0 being the all-zero id.           *)

NullId == 0

Commit(path, id) == [kind |-> "Commit", path |-> path, target |-> <<>>, id |-> Some(id)]
Tag(path, id) == [kind |-> "Tag", path |-> path, target |-> <<>>, id |-> Some(id)]
Symbolic(path, target, id) ==
    [kind |-> "Symbolic", path |-> path, target |-> target, id |-> Some(id)]
SymbolicForLookup(path, target) ==
    [kind |-> "SymbolicForLookup", path |-> path, target |-> target, id |-> None]

\* reference lists a server may advertise (inline with V1, or as the answer to ls-refs)
RefLists ==
    { << Commit(<<"refs", "heads", "main">>, 1), Tag(<<"refs", "tags", "v1">>, 2) >>,
      << SymbolicForLookup(<<"HEAD">>, <<"refs", "heads", "main">>),
         Commit(<<"refs", "heads", "main">>, 1),
         Commit(<<"refs", "heads", "dev">>, 3) >> }

-----------------------------------------------------------------------------
(* Capabilities (fetch.rs, struct Capabilities and its conversions) *)

\* A capability value is a byte string, held as a sequence of pieces: a piece
\* is a run of bytes without a space, the space itself, or a byte that no
\* UTF-8 text contains.
Space == " "
InvalidByte == "<0xff>"

\* the byte string of a text without spaces
Text(t) == << t >>

\* ByteSlice::to_str: the text, when the bytes are valid UTF-8
to_str(bytes) ==
    IF \E i \in DOMAIN bytes : bytes[i] = InvalidByte
    THEN [tag |-> "Err"]
    ELSE [tag |-> "Ok", value |-> bytes]

Token(name, value) == [name |-> name, value |-> value]

\* capability tokens as the transport reports them (client::Capabilities)
ServerCapabilities ==
    { << >>,
      << Token("object-format", Some(Text("sha1"))), Token("agent", Some(Text("git/2.28.0"))) >>,
      << Token("unrelated", None), Token("object-format", Some(Text("sha256"))) >>,
      << Token("object-format", Some(<< "sha", InvalidByte >>)) >> }

\* concat!("git/oxide-", env!("CARGO_PKG_VERSION"))
AgentVersion == Text("git/oxide-CARGO_PKG_VERSION")

\* impl From<client::Capabilities> for Capabilities: a BTreeMap extended with
\* (name, value) pairs in order, so the last token of a name wins
FromClientCapabilities(tokens) ==
    LET names == { tokens[i].name : i \in DOMAIN tokens }
        last(n) == CHOOSE i \in DOMAIN tokens :
                       /\ tokens[i].name = n
                       /\ \A j \in DOMAIN tokens : tokens[j].name = n => j <= i
    IN  [ n \in names |-> tokens[last(n)].value ]

\* BTreeMap::insert
MapInsert(m, k, v) == [ n \in DOMAIN m \cup {k} |-> IF n = k THEN v ELSE m[n] ]
MapRemove(m, k) == [ n \in DOMAIN m \ {k} |-> m[n] ]

\* slice::split: the items between the separators, empty items included
RECURSIVE Split(_, _)
Split(bytes, sep) ==
    IF \E i \in DOMAIN bytes : bytes[i] = sep
    THEN LET i == CHOOSE k \in DOMAIN bytes :
                      bytes[k] = sep /\ \A j \in 1..(k - 1) : bytes[j] # sep
         IN  << SubSeq(bytes, 1, i - 1) >> \o Split(SubSeq(bytes, i + 1, Len(bytes)), sep)
    ELSE << bytes >>

\* as values_of, with the value as its only item
values_of_unsplit(available, name) ==
    IF name \in DOMAIN available /\ available[name].some
    THEN Some(<< Unwrap(available[name]) >>)
    ELSE None

\* Capabilities::values_of
values_of(available, name) ==
    IF name \in DOMAIN available /\ available[name].some
    THEN Some(Split(Unwrap(available[name]), Space))
    ELSE None

\* as set_agent_version, keeping an agent entry that is there
set_agent_version_if_absent(available) ==
    IF "agent" \in DOMAIN available
    THEN available
    ELSE [ n \in DOMAIN available \cup {"agent"} |->
             IF n = "agent" THEN Some(AgentVersion) ELSE available[n] ]

\* Capabilities::set_agent_version
set_agent_version(available) == MapInsert(available, "agent", Some(AgentVersion))

\* Delegate::adjust_capabilities: the default does nothing, an implementation
\* may add, change or remove entries
Hooks == {"keep", "remove_agent", "set_agent"}

adjust_capabilities(hook, available) ==
    CASE hook = "keep" -> available
      [] hook = "remove_agent" -> MapRemove(available, "agent")
      [] hook = "set_agent" -> MapInsert(available, "agent", Some(Text("custom/1.0")))

\* extract_symrefs: its body is a comment, it changes neither argument
extract_symrefs(out_refs, available) == << out_refs, available >>

-----------------------------------------------------------------------------
(* Answers of Transport::handshake(Service::UploadPack) *)

Protocols == {"V1", "V2"}

\* SetServiceResponse; refs is the inline advertisement, when one was sent
Responses ==
    [ actual_protocol : Protocols,
      capabilities : ServerCapabilities,
      refs : {None} \cup { Some(l) : l \in RefLists } ]

NoResponse == [actual_protocol |-> "none", capabilities |-> << >>, refs |-> None]

\* as AssertionsHold, with the first assert_eq! left out
AssertionsHoldWithoutFirst(actual_protocol, refs) ==
    refs.some \/ actual_protocol = "V2"

\* the assertions of fetch(): Some(refs) needs V1, None needs V2
AssertionsHold(actual_protocol, refs) ==
    IF refs.some THEN actual_protocol = "V1" ELSE actual_protocol = "V2"

-----------------------------------------------------------------------------
(* Results *)

NoResult == [tag |-> "none"]
Ok(v) == [tag |-> "Ok", value |-> v]
\* an error of class c (the enum variant) carrying e
Err(c, e) == [tag |-> "Err", class |-> c, err |-> e]
Panic(what) == [tag |-> "panic", what |-> what]

\* credentials::Error, as returned by a failing authenticator action
CredentialsError(action) == [io |-> FALSE, kind |-> "CredentialHelper", msg |-> action]

\* one entry of the log: a transport operation or an authenticator action, the
\* identity it carries or runs under, and whether it returned without error
Event(op, id, ok) == [op |-> op, identity |-> id, ok |-> ok]

AuthActions == {"Fill", "approve", "reject"}
RoundTrips == {"handshake", "ls_refs"}

-----------------------------------------------------------------------------
(* State after construction: nothing has been called *)

NoArgs == [fetch_specs |-> << >>, fetch_tags |-> "None", given_extra_refspecs |-> << >>,
           extra_refspecs |-> << >>, specs |-> << >>,
           prefix_from_spec_as_filter_on_remote |-> FALSE]

NoRequest == [sent |-> FALSE, features |-> << >>, arguments |-> << >>]

Init ==
    /\ pc = "idle"
    /\ caller = "none"
    /\ log = << >>
    /\ identity = "none"
    /\ filled = "none"
    /\ err1 = NoError
    /\ err2 = NoError
    /\ response = NoResponse
    /\ capabilities = << >>
    /\ outcome = None
    /\ args = NoArgs
    /\ request = NoRequest
    /\ remote_refs = << >>
    /\ matched = << >>
    /\ match_items = << >>
    /\ res = NoResult
    /\ teardown = NoResult
    /\ result = NoResult

-----------------------------------------------------------------------------
(* fetch.rs: fetch() *)

\* an error leaves the handshake through `?`: fetch() returns it; under ref_map
\* it passes Connection::handshake, fetch_refs and ref_map_inner the same way
\* and ref_map holds it while it tears the interaction down
HandshakeFails(class, e) ==
    IF caller = "fetch"
    THEN /\ pc' = "done"
         /\ result' = Err(class, e)
         /\ res' = res
    ELSE /\ pc' = "end_of_interaction"
         /\ res' = Err("Handshake", Err(class, e))
         /\ result' = result

\* as NeedsCredentials, with the guard on the error kind left out
NeedsCredentialsAnyIo(e) == e.io

\* the first arm decides whether a failed attempt is answered by the authenticator
NeedsCredentials(e) == IsPermissionDenied(e)

CallFetch ==
    /\ pc = "idle"
    /\ pc' = "attempt1"
    /\ caller' = "fetch"
    /\ UNCHANGED << log, identity, filled, err1, err2, response, capabilities, outcome,
                    args, request, remote_refs, matched, match_items, teardown, res, result >>

\* lines 167-171, 195: the first transport.handshake(Service::UploadPack)
FirstAttempt ==
    /\ pc = "attempt1"
    /\ \/ \E r \in Responses :
            /\ log' = Append(log, Event("handshake", identity, TRUE))
            /\ response' = r
            /\ pc' = "post"
            /\ UNCHANGED << err1, res, result >>
       \/ \E e \in TransportErrors("attempt1") :
            /\ log' = Append(log, Event("handshake", identity, FALSE))
            /\ err1' = e
            /\ response' = response
            /\ IF NeedsCredentials(e)
               THEN pc' = "fill" /\ UNCHANGED << res, result >>
               ELSE HandshakeFails("Transport", e)
    /\ UNCHANGED << caller, identity, filled, err2, capabilities, outcome, args,
                    request, remote_refs, matched, match_items, teardown >>

\* as Fill, going on to the retry when the authenticator fails
FillFailureIgnored ==
    /\ pc = "fill"
    /\ \/ \E id \in Identities :
            /\ log' = log \o << Event("to_url", identity, TRUE), Event("Fill", id, TRUE) >>
            /\ filled' = id
            /\ pc' = "set_identity"
       \/ /\ log' = log \o << Event("to_url", identity, TRUE), Event("Fill", "none", FALSE) >>
          /\ filled' = filled
          /\ pc' = "attempt2"
    /\ UNCHANGED << caller, identity, err1, err2, response, capabilities, outcome, args,
                    request, remote_refs, matched, match_items, teardown, res, result >>

\* lines 173-174: transport.to_url(), authenticate(Action::Fill(&url))?
Fill ==
    /\ pc = "fill"
    /\ \/ \E id \in Identities :
            /\ log' = log \o << Event("to_url", identity, TRUE), Event("Fill", id, TRUE) >>
            /\ filled' = id
            /\ pc' = "set_identity"
            /\ UNCHANGED << res, result >>
       \/ /\ log' = log \o << Event("to_url", identity, TRUE), Event("Fill", "none", FALSE) >>
          /\ filled' = filled
          /\ HandshakeFails("Credentials", CredentialsError("Fill"))
    /\ UNCHANGED << caller, identity, err1, err2, response, capabilities, outcome, args,
                    request, remote_refs, matched, match_items, teardown >>

\* as SetIdentity, going on to the retry without the call on the transport
SetIdentitySkipped ==
    /\ pc = "set_identity"
    /\ pc' = "attempt2"
    /\ UNCHANGED << caller, log, identity, filled, err1, err2, response, capabilities,
                    outcome, args, request, remote_refs, matched, match_items, teardown, res, result >>

\* line 175: transport.set_identity(identity)?
SetIdentity ==
    /\ pc = "set_identity"
    /\ \/ /\ log' = Append(log, Event("set_identity", filled, TRUE))
          /\ identity' = filled
          /\ pc' = "attempt2"
          /\ UNCHANGED << res, result >>
       \/ /\ log' = Append(log, Event("set_identity", filled, FALSE))
          /\ identity' = identity
          /\ HandshakeFails("Transport", TransportError("set_identity"))
    /\ UNCHANGED << caller, filled, err1, err2, response, capabilities, outcome, args,
                    request, remote_refs, matched, match_items, teardown >>

\* as RetrySuccessNext, with the approve left out
RetrySuccessSkipsApprove == "post"

\* lines 180-181: a granted retry is answered with next.approve()
RetrySuccessNext == "approve"

\* as RetryErrorNext, with every failed retry taken as a refusal
RetryErrorAlwaysRejects(e) == "reject"

\* as RetryErrorNext, with a second refusal answered by asking again
RetryErrorAsksAgain(e) == IF IsPermissionDenied(e) THEN "fill" ELSE "fail"

\* what the second attempt's error leads to: lines 185-188 and 192
RetryErrorNext(e) == IF IsPermissionDenied(e) THEN "reject" ELSE "fail"

\* lines 176-193: the retry, with the identity installed
SecondAttempt ==
    /\ pc = "attempt2"
    /\ \/ \E r \in Responses :
            /\ log' = Append(log, Event("handshake", identity, TRUE))
            /\ response' = r
            /\ pc' = RetrySuccessNext
            /\ UNCHANGED << err2, res, result >>
       \/ \E e \in TransportErrors("attempt2") :
            /\ log' = Append(log, Event("handshake", identity, FALSE))
            /\ err2' = e
            /\ response' = response
            /\ IF RetryErrorNext(e) = "fail"
               THEN HandshakeFails("Transport", e)
               ELSE pc' = RetryErrorNext(e) /\ UNCHANGED << res, result >>
    /\ UNCHANGED << caller, identity, filled, err1, capabilities, outcome, args,
                    request, remote_refs, matched, match_items, teardown >>


\* as RejectedError, with the err of the outer arm
RejectedErrorOfFirstAttempt == err1

\* line 187: Err(client::Error::Io { err }), err being bound by the arm of the
\* second match
RejectedError == err2

\* as Approve, with the authenticator's failure dropped
ApproveFailureIgnored ==
    /\ pc = "approve"
    /\ \/ log' = Append(log, Event("approve", filled, TRUE))
       \/ log' = Append(log, Event("approve", filled, FALSE))
    /\ pc' = "post"
    /\ UNCHANGED << caller, identity, filled, err1, err2, response, capabilities,
                    outcome, args, request, remote_refs, matched, match_items, teardown,
                    res, result >>

\* lines 180-182: authenticate(next.approve())?; Ok(v)
Approve ==
    /\ pc = "approve"
    /\ \/ /\ log' = Append(log, Event("approve", filled, TRUE))
          /\ pc' = "post"
          /\ UNCHANGED << res, result >>
       \/ /\ log' = Append(log, Event("approve", filled, FALSE))
          /\ HandshakeFails("Credentials", CredentialsError("approve"))
    /\ UNCHANGED << caller, identity, filled, err1, err2, response, capabilities,
                    outcome, args, request, remote_refs, matched, match_items, teardown >>

\* lines 185-188: authenticate(next.reject())?; Err(client::Error::Io { err })
Reject ==
    /\ pc = "reject"
    /\ \/ /\ log' = Append(log, Event("reject", filled, TRUE))
          /\ HandshakeFails("Transport", RejectedError)
       \/ /\ log' = Append(log, Event("reject", filled, FALSE))
          /\ HandshakeFails("Credentials", CredentialsError("reject"))
    /\ UNCHANGED << caller, identity, filled, err1, err2, response, capabilities,
                    outcome, args, request, remote_refs, matched, match_items, teardown >>

\* the hooks a caller can have installed: fetch() takes a Delegate, while
\* Connection::handshake passes none
HooksOf(c) == IF c = "fetch" THEN Hooks ELSE {"keep"}

\* lines 199-222: capabilities.into(), delegate.adjust_capabilities(),
\* set_agent_version(), extract_symrefs(), then the two assert_eq!
PostProcess ==
    /\ pc = "post"
    /\ \E hook \in HooksOf(caller) :
         LET converted == FromClientCapabilities(response.capabilities)
             adjusted == adjust_capabilities(hook, converted)
             stamped == set_agent_version(adjusted)
             extracted == extract_symrefs(<< >>, stamped)
         IN  /\ capabilities' = extracted[2]
             /\ IF AssertionsHold(response.actual_protocol, response.refs)
                THEN /\ outcome' = Some([protocol_version |-> response.actual_protocol,
                                         capabilities |-> extracted[2],
                                         refs |-> response.refs])
                     /\ pc' = IF caller = "fetch" THEN "rest_of_fetch" ELSE "take_refs"
                     /\ result' = result
                ELSE /\ outcome' = outcome
                     /\ pc' = "done"
                     /\ result' = Panic("assert_eq")
    /\ UNCHANGED << caller, log, identity, filled, err1, err2, response, args,
                    request, remote_refs, matched, match_items, teardown, res >>

\* line 224: unimplemented!("rest of fetch")
RestOfFetch ==
    /\ pc = "rest_of_fetch"
    /\ pc' = "done"
    /\ result' = Panic("unimplemented")
    /\ UNCHANGED << caller, log, identity, filled, err1, err2, response,
                    capabilities, outcome, args, request, remote_refs, matched, match_items, teardown, res >>

-----------------------------------------------------------------------------
(* Refspecs and their matching (gix_refspec) *)

ObjectIdSource(id) == [kind |-> "ObjectId", path |-> << >>, id |-> id]
NameSource(path) == [kind |-> "FullName", path |-> path, id |-> NullId]
\* path/*
GlobSource(path) == [kind |-> "Glob", path |-> path, id |-> NullId]

RefSpec(mode, src, dst) == [mode |-> mode, src |-> src, dst |-> dst]

\* refs/heads/*:refs/remotes/origin/*
HeadsSpec == RefSpec("Normal", GlobSource(<<"refs", "heads">>),
                     Some(GlobSource(<<"refs", "remotes", "origin">>)))
\* refs/heads/dev:refs/remotes/origin/main
DevAsMainSpec == RefSpec("Normal", NameSource(<<"refs", "heads", "dev">>),
                         Some(NameSource(<<"refs", "remotes", "origin", "main">>)))
\* refs/tags/*:refs/tags/*, what Tags::to_refspec yields
TagSpec == RefSpec("Normal", GlobSource(<<"refs", "tags">>),
                   Some(GlobSource(<<"refs", "tags">>)))
\* an object id as source, no destination
ObjectSpec == RefSpec("Normal", ObjectIdSource(7), None)

\* the refspecs a remote is configured with (remote.fetch_specs)
RefSpecs == {HeadsSpec, DevAsMainSpec, ObjectSpec}

\* what a caller passes as Options.extra_refspecs
ExtraRefSpecs == { << >>, << TagSpec >>, << HeadsSpec >>, << TagSpec, TagSpec >> }

SeqsUpTo(S, n) == UNION { [1..k -> S] : k \in 0..n }

IsPrefix(p, s) == Len(p) <= Len(s) /\ SubSeq(s, 1, Len(p)) = p

Contains(seq, x) == \E i \in DOMAIN seq : seq[i] = x

\* Tags::to_refspec
TagPolicies == {"Included", "None"}
to_refspec(fetch_tags) == IF fetch_tags = "None" THEN None ELSE Some(TagSpec)

\* whether the source of spec matches the ref name
MatchesLhs(spec, name) ==
    CASE spec.src.kind = "Glob" -> IsPrefix(spec.src.path, name) /\ Len(name) > Len(spec.src.path)
      [] spec.src.kind = "FullName" -> spec.src.path = name
      [] OTHER -> FALSE

\* the destination the spec gives the ref name
Rhs(spec, name) ==
    IF ~spec.dst.some THEN None
    ELSE LET dst == Unwrap(spec.dst)
         IN  IF dst.kind = "Glob"
             THEN Some(dst.path \o SubSeq(name, Len(spec.src.path) + 1, Len(name)))
             ELSE Some(dst.path)

\* the rows of one spec, spec_index counted from 0 as in the source
RECURSIVE RowsOfSpec(_, _, _, _)
RowsOfSpec(spec, spec_index, items, j) ==
    IF j > Len(items) THEN << >>
    ELSE (IF MatchesLhs(spec, items[j].full_ref_name)
          THEN << [item_index |-> Some(j - 1),
                   lhs |-> NameSource(items[j].full_ref_name),
                   rhs |-> Rhs(spec, items[j].full_ref_name),
                   spec_index |-> spec_index] >>
          ELSE << >>) \o RowsOfSpec(spec, spec_index, items, j + 1)

\* MatchGroup::match_remotes: spec by spec, item by item; an object id source
\* yields one row without item index
RECURSIVE match_remotes(_, _, _)
match_remotes(specs, items, i) ==
    IF i > Len(specs) THEN << >>
    ELSE (IF specs[i].src.kind = "ObjectId"
          THEN << [item_index |-> None, lhs |-> specs[i].src,
                   rhs |-> None, spec_index |-> i - 1] >>
          ELSE RowsOfSpec(specs[i], i - 1, items, 1))
         \o match_remotes(specs, items, i + 1)

\* Outcome::validated: two different sources for one destination are a conflict
HasConflict(rows) ==
    \E a, b \in DOMAIN rows :
        /\ rows[a].rhs.some
        /\ rows[a].rhs = rows[b].rhs
        /\ rows[a].lhs # rows[b].lhs

\* RefSpecRef::expand_prefixes: the prefix a server can filter by
expand_prefixes(spec) ==
    IF spec.src.kind = "ObjectId" THEN << >> ELSE << spec.src.path >>

\* RefSpecRef::instruction: what to do, which the mode only affects for updates
instruction(spec) ==
    IF spec.dst.some
    THEN [op |-> "AndUpdate", src |-> spec.src, dst |-> spec.dst,
          allow_non_fast_forward |-> (spec.mode = "Force")]
    ELSE [op |-> "Only", src |-> spec.src, dst |-> None,
          allow_non_fast_forward |-> FALSE]

-----------------------------------------------------------------------------
(* ref_map.rs: Connection::ref_map, ref_map_inner, fetch_refs *)

\* as WithTagSpec, without the look into the extra refspecs
WithTagSpecAlwaysAppended(extra_refspecs, fetch_tags) ==
    LET tag_spec == to_refspec(fetch_tags)
    IN  IF tag_spec.some
        THEN Append(extra_refspecs, Unwrap(tag_spec))
        ELSE extra_refspecs

\* lines 115-119: the tag refspec joins the extra refspecs unless it is among them
WithTagSpec(extra_refspecs, fetch_tags) ==
    LET tag_spec == to_refspec(fetch_tags)
    IN  IF tag_spec.some /\ ~Contains(extra_refspecs, Unwrap(tag_spec))
        THEN Append(extra_refspecs, Unwrap(tag_spec))
        ELSE extra_refspecs

\* lines 120-124: the configured specs, then the extra ones
AllSpecs(fetch_specs, extra_refspecs) == fetch_specs \o extra_refspecs

\* ref_map() is entered; ref_map_inner runs up to the call of fetch_refs
CallRefMap ==
    /\ pc = "idle"
    /\ \E fetch_specs \in SeqsUpTo(RefSpecs, MaxFetchSpecs),
          extra \in ExtraRefSpecs,
          fetch_tags \in TagPolicies,
          filter \in BOOLEAN :
         LET extra_refspecs == WithTagSpec(extra, fetch_tags)
         IN  args' = [fetch_specs |-> fetch_specs,
                      fetch_tags |-> fetch_tags,
                      given_extra_refspecs |-> extra,
                      extra_refspecs |-> extra_refspecs,
                      specs |-> AllSpecs(fetch_specs, extra_refspecs),
                      prefix_from_spec_as_filter_on_remote |-> filter]
    /\ pc' = "connect"
    /\ caller' = "ref_map"
    /\ UNCHANGED << log, identity, filled, err1, err2, response, capabilities, outcome,
                    request, remote_refs, matched, match_items, teardown, res, result >>

\* handshake.rs lines 53-81: credentials and transport options are gathered, the
\* transport is configured, then the protocol handshake starts
ConnectionHandshake ==
    /\ pc = "connect"
    /\ \/ /\ log' = Append(log, Event("to_url", identity, TRUE))
          /\ \E class \in {"ConfigureCredentials", "GatherTransportConfig"} :
               res' = Err("Handshake", Err(class, NoError))
          /\ pc' = "end_of_interaction"
       \/ /\ log' = log \o << Event("to_url", identity, TRUE),
                             Event("configure", identity, FALSE) >>
          /\ res' = Err("Handshake", Err("ConfigureTransport", NoError))
          /\ pc' = "end_of_interaction"
       \/ /\ \E configured \in BOOLEAN :
               log' = log \o << Event("to_url", identity, TRUE) >>
                          \o (IF configured THEN << Event("configure", identity, TRUE) >>
                              ELSE << >>)
          /\ res' = res
          /\ pc' = "attempt1"
    /\ UNCHANGED << caller, identity, filled, err1, err2, response, capabilities, outcome,
                    args, request, remote_refs, matched, match_items, teardown, result >>

\* lines 190-191: outcome.refs.take(), inline refs are used as they are
\* as TakeRefs, asking for the references whatever the outcome carries
TakeRefsAlwaysLists ==
    /\ pc = "take_refs"
    /\ outcome' = Some([Unwrap(outcome) EXCEPT !.refs = None])
    /\ remote_refs' = remote_refs
    /\ pc' = "ls_refs"
    /\ UNCHANGED << caller, log, identity, filled, err1, err2, response, capabilities,
                    args, request, matched, match_items, teardown, res, result >>

TakeRefs ==
    /\ pc = "take_refs"
    /\ LET refs == Unwrap(outcome).refs
       IN  /\ outcome' = Some([Unwrap(outcome) EXCEPT !.refs = None])
           /\ IF refs.some
              THEN remote_refs' = Unwrap(refs) /\ pc' = "match"
              ELSE remote_refs' = remote_refs /\ pc' = "ls_refs"
    /\ UNCHANGED << caller, log, identity, filled, err1, err2, response, capabilities,
                    args, request, matched, match_items, teardown, res, result >>

\* as RefPrefixes, without the set of instructions seen
RECURSIVE RefPrefixesOfEverySpec(_, _, _)
RefPrefixesOfEverySpec(refspecs, i, seen) ==
    IF i > Len(refspecs) THEN << >>
    ELSE [ k \in DOMAIN expand_prefixes(refspecs[i]) |->
               << "ref-prefix" >> \o expand_prefixes(refspecs[i])[k] ]
         \o RefPrefixesOfEverySpec(refspecs, i + 1, seen)

\* lines 200-211: one set of prefixes per distinct instruction, first occurrence
RECURSIVE RefPrefixes(_, _, _)
RefPrefixes(refspecs, i, seen) ==
    IF i > Len(refspecs) THEN << >>
    ELSE IF instruction(refspecs[i]) \in seen
         THEN RefPrefixes(refspecs, i + 1, seen)
         ELSE [ k \in DOMAIN expand_prefixes(refspecs[i]) |->
                    << "ref-prefix" >> \o expand_prefixes(refspecs[i])[k] ]
              \o RefPrefixes(refspecs, i + 1, seen \cup {instruction(refspecs[i])})

\* Repository config user_agent_tuple()
AgentFeature == << "agent", "oxide-VERSION" >>

\* as LsRefsRequest, with the agent feature inside the filtering branch
LsRefsRequestAgentWithPrefixes(filter_by_prefix, refspecs) ==
    [sent |-> TRUE,
     features |-> IF filter_by_prefix THEN << AgentFeature >> ELSE << >>,
     arguments |-> IF filter_by_prefix THEN RefPrefixes(refspecs, 1, {}) ELSE << >>]

\* lines 197-213: the closure that completes the ls-refs request
LsRefsRequest(filter_by_prefix, refspecs) ==
    [sent |-> TRUE,
     features |-> << AgentFeature >>,
     arguments |-> IF filter_by_prefix THEN RefPrefixes(refspecs, 1, {}) ELSE << >>]

\* lines 192-219: the ls-refs round trip
LsRefs ==
    /\ pc = "ls_refs"
    /\ request' = LsRefsRequest(args.prefix_from_spec_as_filter_on_remote, args.specs)
    /\ \/ \E refs \in RefLists :
            /\ log' = Append(log, Event("ls_refs", identity, TRUE))
            /\ remote_refs' = refs
            /\ pc' = "match"
            /\ res' = res
       \/ \E e \in TransportErrors("ls_refs") :
            /\ log' = Append(log, Event("ls_refs", identity, FALSE))
            /\ remote_refs' = remote_refs
            /\ pc' = "end_of_interaction"
            /\ res' = Err("ListRefs", e)
    /\ UNCHANGED << caller, identity, filled, err1, err2, response, capabilities, outcome,
                    args, matched, match_items, teardown, result >>


\* as Item, with the null id for every target
ItemWithNullTarget(r) == [full_ref_name |-> r.path, target |-> NullId]

\* Ref::unpack: name, the id when there is one, and the match item built from
\* them in lines 136-143: target.unwrap_or(&null)
Item(r) ==
    [full_ref_name |-> r.path,
     target |-> IF r.id.some THEN Unwrap(r.id) ELSE NullId]

Items(refs) == [ j \in DOMAIN refs |-> Item(refs[j]) ]

\* lines 133-145: matching and validation; `?` on a conflict
MatchRemotes ==
    /\ pc = "match"
    /\ match_items' = Items(remote_refs)
    /\ LET rows == match_remotes(args.specs, Items(remote_refs), 1)
       IN  IF HasConflict(rows)
           THEN /\ res' = Err("MappingValidation", NoError)
                /\ matched' = matched
                /\ pc' = "end_of_interaction"
           ELSE /\ res' = res
                /\ matched' = rows
                /\ pc' = "object_format"
    /\ UNCHANGED << caller, log, identity, filled, err1, err2, response, capabilities,
                    outcome, args, request, remote_refs, teardown, result >>

\* as SpecIndexOf, with the boundary off by one
SpecIndexOfOffByOne(spec_index, num_explicit_specs) ==
    IF spec_index <= num_explicit_specs
    THEN [tag |-> "ExplicitInRemote", index |-> spec_index]
    ELSE [tag |-> "Implicit", index |-> spec_index - num_explicit_specs]

\* lines 159-163: the provenance of a mapping
SpecIndexOf(spec_index, num_explicit_specs) ==
    IF spec_index < num_explicit_specs
    THEN [tag |-> "ExplicitInRemote", index |-> spec_index]
    ELSE [tag |-> "Implicit", index |-> spec_index - num_explicit_specs]

\* lines 146-165: a validated row becomes a fetch::Mapping
MappingOf(m, refs, num_explicit_specs) ==
    [remote |-> IF m.item_index.some
                THEN [source |-> "Ref", ref |-> Some(refs[Unwrap(m.item_index) + 1]),
                      id |-> NullId]
                ELSE [source |-> "ObjectId", ref |-> None, id |-> m.lhs.id],
     local |-> m.rhs,
     spec_index |-> SpecIndexOf(m.spec_index, num_explicit_specs)]

Mappings(rows, refs, num_explicit_specs) ==
    [ k \in DOMAIN rows |-> MappingOf(rows[k], refs, num_explicit_specs) ]

\* Capabilities::capability(name).and_then(|c| c.value())
CapabilityValue(caps, name) == IF name \in DOMAIN caps THEN caps[name] ELSE None

\* as extract_object_format, with bytes that are no text taken as no value
extract_object_format_lossy(handshake) ==
    LET value == CapabilityValue(handshake.capabilities, "object-format")
    IN  IF value.some /\ to_str(Unwrap(value)).tag = "Ok"
        THEN IF Unwrap(value) = Text("sha1")
             THEN Ok("Sha1")
             ELSE Err("UnknownObjectFormat", Unwrap(value))
        ELSE Ok("Sha1")

\* handshake.rs lines 88-106: extract_object_format
extract_object_format(handshake) ==
    LET value == CapabilityValue(handshake.capabilities, "object-format")
    IN  IF value.some
        THEN LET object_format == to_str(Unwrap(value))
             IN  IF object_format.tag = "Err"
                 THEN Err("UnknownObjectFormat", Unwrap(value))
                 ELSE IF object_format.value = Text("sha1")
                      THEN Ok("Sha1")
                      ELSE Err("UnknownObjectFormat", object_format.value)
        ELSE Ok("Sha1")

\* as InnerResult, with an unknown object format falling back to the default
InnerResultWithDefaultHash(rows, extra_refspecs, refs, handshake, num_explicit_specs) ==
    Ok([mappings |-> Mappings(rows, refs, num_explicit_specs),
        extra_refspecs |-> extra_refspecs,
        fixes |-> << >>,
        remote_refs |-> refs,
        handshake |-> handshake,
        object_hash |-> "Sha1"])

\* what ref_map_inner returns once matching went through: lines 167-175
InnerResult(rows, extra_refspecs, refs, handshake, num_explicit_specs) ==
    LET object_hash == extract_object_format(handshake)
    IN  IF object_hash.tag = "Err"
        THEN Err("Handshake", object_hash)
        ELSE Ok([mappings |-> Mappings(rows, refs, num_explicit_specs),
                 extra_refspecs |-> extra_refspecs,
                 fixes |-> << >>,
                 remote_refs |-> refs,
                 handshake |-> handshake,
                 object_hash |-> object_hash.value])

\* lines 146-175: the mapping table, the object hash, the RefMap
Finish ==
    /\ pc = "object_format"
    /\ res' = InnerResult(matched, args.extra_refspecs, remote_refs, Unwrap(outcome),
                          Len(args.fetch_specs))
    /\ pc' = "end_of_interaction"
    /\ UNCHANGED << caller, log, identity, filled, err1, err2, response, capabilities,
                    outcome, args, request, remote_refs, matched, match_items, teardown, result >>

\* as TeardownEvents, with the notification behind the `?` of the inner result
TeardownOnlyOnSuccess(ok) ==
    IF res.tag = "Ok" THEN << Event("end_of_interaction", identity, ok) >> ELSE << >>

\* line 95: what indicate_end_of_interaction puts on the transport
TeardownEvents(ok) == << Event("end_of_interaction", identity, ok) >>

\* as Returned, with `?` in place of .ok()
ReturnedWithNotificationError(inner, notification) ==
    IF notification.tag = "Err" THEN notification ELSE inner

\* lines 94-98: the notification's result goes through .ok() and is dropped
Returned(inner, notification) == inner

\* lines 94-98: the notification, then the held result is returned
EndOfInteraction ==
    /\ pc = "end_of_interaction"
    /\ \E t \in {Ok("sent"), Err("Transport", TransportError("end_of_interaction"))} :
         /\ log' = log \o TeardownEvents(t.tag = "Ok")
         /\ teardown' = t
         /\ result' = Returned(res, t)
    /\ pc' = "done"
    /\ UNCHANGED << caller, identity, filled, err1, err2, response, capabilities,
                    outcome, args, request, remote_refs, matched, match_items, res >>

-----------------------------------------------------------------------------

Next ==
    \/ CallFetch
    \/ FirstAttempt
    \/ Fill
    \/ SetIdentity
    \/ SecondAttempt
    \/ Approve
    \/ Reject
    \/ PostProcess
    \/ RestOfFetch
    \/ CallRefMap
    \/ ConnectionHandshake
    \/ TakeRefs
    \/ LsRefs
    \/ MatchRemotes
    \/ Finish
    \/ EndOfInteraction

Spec == Init /\ [][Next]_vars

-----------------------------------------------------------------------------
(* fetch.rs: Capabilities and extract_symrefs on their own, over the
   capability lists a server may send *)

MaxTokens == 3
MaxStamps == 2

Colon == ":"

CapabilityTokens ==
    { Token("unrelated", None),
      Token("symref", Some(<< "HEAD", Colon, "refs/heads/main" >>)),
      Token("symref", Some(<< "ANOTHER", Colon, "refs/heads/baz" >>)),
      Token("agent", Some(Text("git/2.28.0"))),
      Token("fetch", Some(<< "shallow", Space, "filter" >>)) }

CapabilityNames == { t.name : t \in CapabilityTokens } \cup {"absent"}

CapabilitiesInit ==
    /\ pc = "from"
    /\ caller = "none"
    /\ log = << >>
    /\ identity = "none"
    /\ filled = "none"
    /\ err1 = NoError
    /\ err2 = NoError
    /\ \E tokens \in SeqsUpTo(CapabilityTokens, MaxTokens) :
          response = [actual_protocol |-> "V1", capabilities |-> tokens, refs |-> None]
    /\ capabilities = << >>
    /\ outcome = None
    /\ args = NoArgs
    /\ request = NoRequest
    /\ remote_refs = << >>
    /\ matched = << >>
    /\ match_items = << >>
    /\ res = NoResult
    /\ teardown = NoResult
    /\ result = NoResult

\* line 199: capabilities.into()
FromCapabilities ==
    /\ pc = "from"
    /\ capabilities' = FromClientCapabilities(response.capabilities)
    /\ pc' = "adjust"
    /\ result' = NoResult
    /\ UNCHANGED << caller, log, identity, filled, err1, err2, response, outcome, args,
                    request, remote_refs, matched, match_items, res, teardown >>

\* line 200: delegate.adjust_capabilities(..)
AdjustCapabilities ==
    /\ pc = "adjust"
    /\ \E hook \in Hooks :
          /\ capabilities' = adjust_capabilities(hook, capabilities)
          /\ log' = Append(log, Event("adjust_capabilities", hook, TRUE))
    /\ pc' = "stamp"
    /\ result' = NoResult
    /\ UNCHANGED << caller, identity, filled, err1, err2, response, outcome, args,
                    request, remote_refs, matched, match_items, res, teardown >>

\* line 201: capabilities.set_agent_version(), once or again
SetAgentVersion ==
    /\ pc = "stamp"
    /\ Cardinality({ i \in DOMAIN log : log[i].op = "set_agent_version" }) < MaxStamps
    /\ capabilities' = set_agent_version(capabilities)
    /\ log' = Append(log, Event("set_agent_version", "none", TRUE))
    /\ result' = NoResult
    /\ UNCHANGED << pc, caller, identity, filled, err1, err2, response, outcome, args,
                    request, remote_refs, matched, match_items, res, teardown >>

\* lines 202-203: extract_symrefs(&mut parsed_refs, &mut capabilities)
ExtractSymrefs ==
    /\ pc = "stamp"
    /\ \E i \in DOMAIN log : log[i].op = "set_agent_version"
    /\ LET extracted == extract_symrefs(<< >>, capabilities)
       IN  /\ remote_refs' = extracted[1]
           /\ capabilities' = extracted[2]
    /\ pc' = "extracted"
    /\ result' = NoResult
    /\ UNCHANGED << caller, log, identity, filled, err1, err2, response, outcome, args,
                    request, matched, match_items, res, teardown >>

\* lines 40-44: a call of values_of on the capabilities as they are
ValuesOf ==
    /\ pc \in {"adjust", "stamp", "extracted"}
    /\ \E name \in CapabilityNames :
          result' = Ok([name |-> name, values |-> values_of(capabilities, name)])
    /\ UNCHANGED << pc, caller, log, identity, filled, err1, err2, response, capabilities,
                    outcome, args, request, remote_refs, matched, match_items, res, teardown >>

CapabilitiesNext ==
    \/ FromCapabilities
    \/ AdjustCapabilities
    \/ SetAgentVersion
    \/ ExtractSymrefs
    \/ ValuesOf

CapabilitiesSpec == CapabilitiesInit /\ [][CapabilitiesNext]_vars

-----------------------------------------------------------------------------
(* What the properties read off the state *)

\* the authenticator's view: the actions it received, in order
AuthLog ==
    LET sel == SelectSeq(log, LAMBDA e : e.op \in AuthActions)
    IN  [ i \in DOMAIN sel |-> sel[i].op ]

Count(op) == Cardinality({ i \in DOMAIN log : log[i].op = op })

\* the operation or action was run and returned without error
ReturnedOk(op) == \E i \in DOMAIN log : log[i].op = op /\ log[i].ok

\* service requests made so far
Attempts == Count("handshake")

\* the two attempts and the authenticator exchange between them are over
CredentialStageDone ==
    pc \notin {"idle", "connect", "attempt1", "fill", "set_identity", "attempt2",
               "approve", "reject"}

\* the error fetch() ended with, seen through the wrapping of ref_map
HandshakeError ==
    IF caller = "fetch" THEN result
    ELSE IF res.tag = "Err" /\ res.class = "Handshake" THEN res.err
    ELSE NoResult

\* the service request went through: its response is handed on to lines 199-222
RequestSucceeded ==
    /\ CredentialStageDone
    /\ Attempts >= 1
    /\ ~(HandshakeError.tag = "Err" /\ HandshakeError.class \in {"Transport", "Credentials"})

FirstGranted == Attempts >= 1 /\ err1 = NoError
FirstDenied == IsPermissionDenied(err1)
FirstFailedOtherwise == err1 # NoError /\ ~IsPermissionDenied(err1)
RetryGranted == Attempts = 2 /\ err2 = NoError
RetryDenied == IsPermissionDenied(err2)
RetryFailedOtherwise == err2 # NoError /\ ~IsPermissionDenied(err2)

-----------------------------------------------------------------------------
(* Properties of the handshake *)

\* C1: the authenticator is invoked, and a second attempt made, only after a
\* first attempt that failed with permission denied; a first attempt that
\* succeeds hands its response on at once, one that fails otherwise returns its
\* error at once
C1_AuthenticatorOnlyAfterDenial ==
    /\ (AuthLog # << >> \/ Attempts > 1) => FirstDenied
    /\ FirstGranted => AuthLog = << >> /\ Attempts = 1 /\ RequestSucceeded
    /\ FirstFailedOtherwise =>
          /\ AuthLog = << >>
          /\ Attempts = 1
          /\ HandshakeError = Err("Transport", err1)

C1_Witness ==
    /\ pc = "done"
    /\ FirstFailedOtherwise
    /\ err1.kind = "ConnectionReset"
    /\ result = Err("Transport", err1)

\* C2 as stated: denied, then granted: the authenticator got exactly Fill then
\* approve and the service request ends in success
C2_AsStated ==
    (FirstDenied /\ RetryGranted /\ CredentialStageDone) =>
        /\ AuthLog = << "Fill", "approve" >>
        /\ RequestSucceeded

\* C2: denied, then granted: the authenticator got exactly Fill then approve,
\* and the service request ends in success unless approve itself failed, when
\* the call ends with that credentials error
C2_DeniedThenGranted ==
    (FirstDenied /\ RetryGranted /\ CredentialStageDone) =>
        /\ AuthLog = << "Fill", "approve" >>
        /\ IF ReturnedOk("approve")
           THEN RequestSucceeded
           ELSE HandshakeError = Err("Credentials", CredentialsError("approve"))

C2_Witness ==
    /\ FirstDenied /\ RetryGranted
    /\ pc = "post"
    /\ AuthLog = << "Fill", "approve" >>
    /\ RequestSucceeded

\* C3 as stated: denied twice: exactly Fill then reject, and the error of the
\* first attempt is returned
C3_AsStated ==
    (FirstDenied /\ RetryDenied /\ CredentialStageDone) =>
        /\ AuthLog = << "Fill", "reject" >>
        /\ HandshakeError = Err("Transport", err1)

\* C3: denied twice: exactly Fill then reject, and the call returns the
\* permission-denied error of the retry, unless reject itself failed, when the
\* call ends with that credentials error
C3_DeniedTwice ==
    (FirstDenied /\ RetryDenied /\ CredentialStageDone) =>
        /\ AuthLog = << "Fill", "reject" >>
        /\ IF ReturnedOk("reject")
           THEN HandshakeError = Err("Transport", err2)
           ELSE HandshakeError = Err("Credentials", CredentialsError("reject"))

C3_Witness ==
    /\ pc = "done"
    /\ caller = "fetch"
    /\ FirstDenied /\ RetryDenied
    /\ AuthLog = << "Fill", "reject" >>
    /\ result = Err("Transport", err2)
    /\ err2 # err1

\* C4: denied, then a retry that fails otherwise: the retry's error is
\* returned and the authenticator got Fill and nothing after it
C4_RetryFailsOtherwise ==
    (FirstDenied /\ RetryFailedOtherwise) =>
        /\ AuthLog = << "Fill" >>
        /\ Attempts = 2
        /\ HandshakeError = Err("Transport", err2)

C4_Witness ==
    /\ pc = "done"
    /\ FirstDenied /\ RetryFailedOtherwise
    /\ result = Err("Transport", err2)

\* C5: per call at most one Fill, at most one of approve and reject and only
\* after the Fill, and at most two service requests
C5_AtMostOneRetry ==
    /\ AuthLog \in { << >>, << "Fill" >>, << "Fill", "approve" >>, << "Fill", "reject" >> }
    /\ Attempts <= 2

C5_Witness ==
    /\ pc = "done"
    /\ Attempts = 2
    /\ AuthLog = << "Fill", "reject" >>


-----------------------------------------------------------------------------
(* Properties of ref_map *)

\* ref_map returned a value to its caller
RefMapReturned == caller = "ref_map" /\ pc = "done" /\ result.tag \in {"Ok", "Err"}

\* positions of the log holding the operation
Positions(op) == { i \in DOMAIN log : log[i].op = op }

\* the rows matching yields for the specs and the refs of this call
CurrentRows == match_remotes(args.specs, Items(remote_refs), 1)

\* C7: whenever ref_map returns, with a RefMap or with the error of any step,
\* the end-of-interaction notification was sent exactly once, after every
\* round trip of the call and as the last operation on the transport; it is
\* not sent before the inner steps are over
C7_TeardownExactlyOnceAndLast ==
    /\ RefMapReturned =>
          /\ Cardinality(Positions("end_of_interaction")) = 1
          /\ log[Len(log)].op = "end_of_interaction"
          /\ \A i \in DOMAIN log :
                log[i].op \in RoundTrips => \A j \in Positions("end_of_interaction") : i < j
    /\ (caller = "ref_map" /\ pc # "done") => Positions("end_of_interaction") = {}

C7_Witness ==
    /\ RefMapReturned
    /\ result = Err("MappingValidation", NoError)
    /\ Count("ls_refs") = 1
    /\ log[Len(log)].op = "end_of_interaction"

\* C8: ref_map returns the result of the inner steps whether the notification
\* succeeded or failed
C8_TeardownFailureSwallowed ==
    RefMapReturned =>
        /\ teardown.tag \in {"Ok", "Err"}
        /\ result = res

C8_Witness ==
    /\ RefMapReturned
    /\ teardown.tag = "Err"
    /\ ~log[Len(log)].ok
    /\ result.tag = "Ok"

\* C9: ref_map returns a RefMap only when handshake, reference listing,
\* validation and object-format resolution all went through, and then the
\* RefMap holds one mapping per validated row, all refs obtained and the
\* outcome; a conflict among the rows gives the MappingValidation error, any
\* failed step an error and no RefMap
C9_AllOrNothing ==
    RefMapReturned =>
        /\ result.tag = "Ok" =>
              /\ outcome.some
              /\ ReturnedOk("handshake")
              /\ Count("ls_refs") = 1 => ReturnedOk("ls_refs")
              /\ ~HasConflict(CurrentRows)
              /\ extract_object_format(Unwrap(outcome)).tag = "Ok"
              /\ Len(result.value.mappings) = Len(CurrentRows)
              /\ result.value.remote_refs = remote_refs
              /\ result.value.handshake = Unwrap(outcome)
              /\ result.value.extra_refspecs = args.extra_refspecs
        /\ result.tag = "Err" => DOMAIN result = {"tag", "class", "err"}
        /\ (outcome.some /\ (Count("ls_refs") = 1 => ReturnedOk("ls_refs"))
              /\ HasConflict(CurrentRows)) => result = Err("MappingValidation", NoError)
        /\ (Count("ls_refs") = 1 /\ ~ReturnedOk("ls_refs")) =>
              result.tag = "Err" /\ result.class = "ListRefs"
        /\ ~outcome.some => result.tag = "Err" /\ result.class = "Handshake"
        /\ (outcome.some /\ extract_object_format(Unwrap(outcome)).tag = "Err") =>
              result.tag = "Err"

C9_Witness ==
    /\ RefMapReturned
    /\ result.tag = "Err"
    /\ result.class = "Handshake"
    /\ result.err.class = "UnknownObjectFormat"
    /\ matched # << >>

\* C10: with N configured fetch specs, a mapping made from a row of spec index
\* i < N is tagged ExplicitInRemote(i), one from a row of spec index i >= N is
\* tagged Implicit(i - N), and the tag names the spec the row came from
C10_ExplicitImplicitTags ==
    (RefMapReturned /\ result.tag = "Ok") =>
        LET N == Len(args.fetch_specs)
            mappings == result.value.mappings
        IN  /\ Len(mappings) = Len(matched)
            /\ \A k \in DOMAIN matched :
                 LET i == matched[k].spec_index
                     tagged == mappings[k].spec_index
                 IN  /\ i < N => /\ tagged.tag = "ExplicitInRemote"
                                 /\ tagged.index = i
                                 /\ args.fetch_specs[tagged.index + 1] = args.specs[i + 1]
                     /\ i >= N => /\ tagged.tag = "Implicit"
                                  /\ tagged.index = i - N
                                  /\ tagged.index < Len(args.extra_refspecs)
                                  /\ args.extra_refspecs[tagged.index + 1] = args.specs[i + 1]

C10_Witness ==
    /\ RefMapReturned
    /\ result.tag = "Ok"
    /\ Len(args.fetch_specs) = 2
    /\ \E k \in DOMAIN result.value.mappings :
          result.value.mappings[k].spec_index = [tag |-> "ExplicitInRemote", index |-> 1]
    /\ \E k \in DOMAIN result.value.mappings :
          result.value.mappings[k].spec_index = [tag |-> "Implicit", index |-> 1]


\* ref_map_inner got as far as resolving the object hash
ObjectFormatResolved ==
    /\ caller = "ref_map"
    /\ pc \in {"end_of_interaction", "done"}
    /\ outcome.some
    /\ Count("ls_refs") = 1 => ReturnedOk("ls_refs")
    /\ ~HasConflict(CurrentRows)

\* the value of the object-format capability in the handshake outcome
AdvertisedObjectFormat ==
    IF "object-format" \in DOMAIN Unwrap(outcome).capabilities
    THEN Unwrap(outcome).capabilities["object-format"]
    ELSE None

\* C11: without an object-format value the object hash is Sha1, with the
\* value sha1 it is Sha1, and with any other value, text or not, ref_map_inner
\* ends with the UnknownObjectFormat error carrying that value, which ref_map
\* returns
C11_ObjectHashResolution ==
    ObjectFormatResolved =>
        /\ ~AdvertisedObjectFormat.some =>
              res.tag = "Ok" /\ res.value.object_hash = "Sha1"
        /\ AdvertisedObjectFormat = Some(<< "sha1" >>) =>
              res.tag = "Ok" /\ res.value.object_hash = "Sha1"
        /\ (AdvertisedObjectFormat.some /\ AdvertisedObjectFormat # Some(<< "sha1" >>)) =>
              res = Err("Handshake",
                        Err("UnknownObjectFormat", Unwrap(AdvertisedObjectFormat)))
        /\ pc = "done" /\ result.tag # "panic" => result = res

C11_Witness ==
    /\ RefMapReturned
    /\ ObjectFormatResolved
    /\ result = Err("Handshake", Err("UnknownObjectFormat", << "sha", InvalidByte >>))


\* the indices of the refspecs whose instruction no earlier refspec has
RECURSIVE FirstOccurrences(_, _)
FirstOccurrences(refspecs, i) ==
    IF i > Len(refspecs) THEN << >>
    ELSE (IF \E j \in 1..(i - 1) : instruction(refspecs[j]) = instruction(refspecs[i])
          THEN << >> ELSE << i >>)
         \o FirstOccurrences(refspecs, i + 1)

RECURSIVE Flatten(_)
Flatten(seqs) == IF seqs = << >> THEN << >> ELSE Head(seqs) \o Flatten(Tail(seqs))

\* the ref-prefix arguments of one refspec
PrefixArguments(spec) ==
    [ k \in DOMAIN expand_prefixes(spec) |-> << "ref-prefix" >> \o expand_prefixes(spec)[k] ]

LsRefsSent == caller = "ref_map" /\ request.sent

\* C12: with prefix filtering enabled the ref-prefix arguments of the ls-refs
\* request are those of the first refspec of each distinct match instruction,
\* in order, and of no other refspec
C12_PrefixesOncePerInstruction ==
    (LsRefsSent /\ args.prefix_from_spec_as_filter_on_remote) =>
        LET first == FirstOccurrences(args.specs, 1)
        IN  request.arguments =
                Flatten([ k \in DOMAIN first |-> PrefixArguments(args.specs[first[k]]) ])

C12_Witness ==
    /\ LsRefsSent
    /\ args.prefix_from_spec_as_filter_on_remote
    /\ \E i, j \in DOMAIN args.specs :
          /\ i < j
          /\ instruction(args.specs[i]) = instruction(args.specs[j])
          /\ expand_prefixes(args.specs[i]) # << >>
    /\ request.arguments # << >>


\* the step is an application of set_agent_version
Stamping ==
    /\ pc = "stamp"
    /\ Len(log') = Len(log) + 1
    /\ log'[Len(log')].op = "set_agent_version"

\* C13: whatever the server advertised and the hook left behind, every
\* application of the agent stamping leaves an agent entry with the fixed
\* product/version value, leaves every other entry as it was, and changes
\* nothing when it was applied before
C13_StampingIdempotentAndOverwriting ==
    [][ Stamping =>
          /\ "agent" \in DOMAIN capabilities'
          /\ capabilities'["agent"] = Some(AgentVersion)
          /\ DOMAIN capabilities' \ {"agent"} = DOMAIN capabilities \ {"agent"}
          /\ \A n \in DOMAIN capabilities \ {"agent"} : capabilities'[n] = capabilities[n]
          /\ Count("set_agent_version") >= 1 => capabilities' = capabilities ]_vars

C13_Witness ==
    /\ Count("set_agent_version") = 2
    /\ \E i \in DOMAIN response.capabilities : response.capabilities[i].name = "agent"
    /\ \E i \in DOMAIN log : log[i].op = "adjust_capabilities" /\ log[i].identity = "set_agent"
    /\ DOMAIN capabilities \ {"agent"} # {}
    /\ capabilities["agent"] = Some(AgentVersion)


\* fetch_refs is past the point where it has its references or has failed
PastTakingRefs ==
    /\ caller = "ref_map"
    /\ pc \in {"match", "object_format", "end_of_interaction", "done"}

\* C14: under ref_map an ls-refs request is made exactly when the handshake
\* succeeded and its outcome carries no references; it comes after every
\* handshake round trip and at most once; references that came with the
\* handshake are used as they are without a request; a failed handshake is
\* followed by no request
C14_LsRefsIffNoInlineRefs ==
    caller = "ref_map" =>
        /\ Count("ls_refs") <= 1
        /\ \A i \in Positions("ls_refs") :
              /\ outcome.some /\ ~response.refs.some
              /\ \E j \in Positions("handshake") : log[j].ok
              /\ \A j \in Positions("handshake") : j < i
        /\ Count("ls_refs") = 1 <=> request.sent
        /\ PastTakingRefs =>
              /\ (outcome.some /\ ~response.refs.some) => Count("ls_refs") = 1
              /\ (outcome.some /\ response.refs.some) =>
                    Count("ls_refs") = 0 /\ remote_refs = Unwrap(response.refs)
              /\ ~outcome.some => Count("ls_refs") = 0

C14_Witness ==
    /\ RefMapReturned
    /\ result.tag = "Ok"
    /\ Count("handshake") = 2
    /\ Count("ls_refs") = 1
    /\ \E i \in Positions("ls_refs") : log[i].ok


\* the argument is a ref-prefix argument
IsRefPrefix(argument) == argument # << >> /\ Head(argument) = "ref-prefix"

\* C15: every ls-refs request names the local agent among its features,
\* with and without prefix filtering; it has ref-prefix arguments only
\* with prefix filtering, and without it none at all
C15_AgentAlwaysPrefixesOnlyWhenFiltering ==
    LsRefsSent =>
        /\ Contains(request.features, AgentFeature)
        /\ ~args.prefix_from_spec_as_filter_on_remote =>
              \A k \in DOMAIN request.arguments : ~IsRefPrefix(request.arguments[k])

C15_Witness ==
    /\ LsRefsSent
    /\ ~args.prefix_from_spec_as_filter_on_remote
    /\ \E i \in DOMAIN args.specs : expand_prefixes(args.specs[i]) # << >>
    /\ request.arguments = << >>
    /\ request.features = << AgentFeature >>


\* the reference a symref capability value <path>:<target> stands for
SymrefReference(value) ==
    SymbolicForLookup(Split(value, Colon)[1], Split(value, Colon)[2])

\* C16: after extract_symrefs every symref=<path>:<target> token the server
\* advertised has its SymbolicForLookup reference in the produced list, also
\* when several symref tokens were advertised
C16_AsStated ==
    pc = "extracted" =>
        \A i \in DOMAIN response.capabilities :
            (response.capabilities[i].name = "symref" /\ response.capabilities[i].value.some) =>
                Contains(remote_refs, SymrefReference(Unwrap(response.capabilities[i].value)))


\* the items with one space between neighbours
RECURSIVE JoinWithSpaces(_)
JoinWithSpaces(items) ==
    IF Len(items) = 1 THEN items[1]
    ELSE items[1] \o << Space >> \o JoinWithSpaces(Tail(items))

\* a call of values_of has returned
ValuesOfReturned == caller = "none" /\ result.tag = "Ok"

\* C17: values_of(name) returns the items of the value stored under name, as
\* separated by spaces, when name is present with a value, and none when name
\* is absent or present without a value
C17_ValuesOfSplitsOnSpaces ==
    ValuesOfReturned =>
        LET name == result.value.name
            values == result.value.values
        IN  IF name \in DOMAIN capabilities /\ capabilities[name].some
            THEN /\ values.some
                 /\ Unwrap(values) # << >>
                 /\ \A k \in DOMAIN Unwrap(values) : ~Contains(Unwrap(values)[k], Space)
                 /\ JoinWithSpaces(Unwrap(values)) = Unwrap(capabilities[name])
            ELSE values = None

C17_Witness ==
    /\ ValuesOfReturned
    /\ pc = "adjust"
    /\ response.capabilities =
          << Token("unrelated", None),
             Token("symref", Some(<< "HEAD", Colon, "refs/heads/main" >>)),
             Token("agent", Some(Text("git/2.28.0"))) >>
    /\ result.value = [name |-> "symref",
                       values |-> Some(<< << "HEAD", Colon, "refs/heads/main" >> >>)]


\* C18: the first service request is made with no identity on the transport;
\* a second one is made only after a first that failed, then a Fill that
\* returned an identity, then the installation of that identity, in this
\* order, and it is made with the identity Fill returned
C18_RetryAfterFillAndInstall ==
    /\ \A p \in Positions("handshake") :
          (\A q \in Positions("handshake") : p <= q) => log[p].identity = "none"
    /\ \A p1, p2 \in Positions("handshake") :
          p1 < p2 =>
             /\ ~log[p1].ok
             /\ \E f \in Positions("Fill"), s \in Positions("set_identity") :
                   /\ p1 < f /\ f < s /\ s < p2
                   /\ log[f].ok /\ log[s].ok
                   /\ log[f].identity \in Identities
                   /\ log[s].identity = log[f].identity
                   /\ log[p2].identity = log[f].identity
                   /\ Positions("Fill") = {f}
                   /\ Positions("set_identity") = {s}

C18_Witness ==
    /\ Count("handshake") = 2
    /\ \E f \in Positions("Fill") : log[f].identity = "bob"
    /\ \E p \in Positions("handshake") : log[p].identity = "bob" /\ log[p].ok


\* C19: the items handed to refspec matching are the references in their
\* order, each under its name; a reference without id has the all-zero id as
\* target, a reference with an id has that id, which is never the all-zero id
C19_NullIdOnlyForRefsWithoutId ==
    (caller = "ref_map" /\ match_items # << >>) =>
        /\ Len(match_items) = Len(remote_refs)
        /\ \A j \in DOMAIN remote_refs :
              /\ match_items[j].full_ref_name = remote_refs[j].path
              /\ ~remote_refs[j].id.some => match_items[j].target = NullId
              /\ remote_refs[j].id.some =>
                    /\ match_items[j].target = Unwrap(remote_refs[j].id)
                    /\ match_items[j].target # NullId

C19_Witness ==
    /\ caller = "ref_map"
    /\ \E j \in DOMAIN match_items :
          remote_refs[j].kind = "SymbolicForLookup" /\ match_items[j].target = NullId
    /\ \E j \in DOMAIN match_items : remote_refs[j].kind = "Commit" /\ match_items[j].target = 3


FillFailed == \E f \in Positions("Fill") : ~log[f].ok
InstallFailed == \E i \in Positions("set_identity") : ~log[i].ok

\* C20: when Fill fails, or the installation of the identity it returned
\* fails, after a first attempt that was denied, the handshake ends at once
\* with that error: there is no second service request and the authenticator
\* gets neither approve nor reject
C20_FillOrInstallFailureEndsHandshake ==
    /\ FillFailed =>
          /\ FirstDenied
          /\ CredentialStageDone
          /\ HandshakeError = Err("Credentials", CredentialsError("Fill"))
          /\ Attempts = 1
          /\ Count("set_identity") = 0
          /\ AuthLog = << "Fill" >>
    /\ InstallFailed =>
          /\ FirstDenied
          /\ CredentialStageDone
          /\ HandshakeError = Err("Transport", TransportError("set_identity"))
          /\ Attempts = 1
          /\ AuthLog = << "Fill" >>

C20_Witness ==
    /\ RefMapReturned
    /\ InstallFailed
    /\ result = Err("Handshake", Err("Transport", TransportError("set_identity")))
    /\ Count("handshake") = 1


ApproveFailed == \E p \in Positions("approve") : ~log[p].ok
RejectFailed == \E p \in Positions("reject") : ~log[p].ok

\* C21: when approve fails after a granted retry the handshake ends with the
\* credentials error of approve, the response of the retry is not handed on
\* and no capability is converted, adjusted or stamped; when reject fails
\* after a second denial the handshake ends with the credentials error of
\* reject and not with the error of the denial
C21_FinalizingCallbackFailure ==
    /\ ApproveFailed =>
          /\ FirstDenied /\ RetryGranted
          /\ CredentialStageDone
          /\ HandshakeError = Err("Credentials", CredentialsError("approve"))
          /\ AuthLog = << "Fill", "approve" >>
          /\ outcome = None
          /\ capabilities = << >>
    /\ RejectFailed =>
          /\ FirstDenied /\ RetryDenied
          /\ CredentialStageDone
          /\ HandshakeError = Err("Credentials", CredentialsError("reject"))
          /\ HandshakeError # Err("Transport", err2)
          /\ AuthLog = << "Fill", "reject" >>
          /\ outcome = None

C21_Witness ==
    /\ caller = "fetch"
    /\ pc = "done"
    /\ ApproveFailed
    /\ response # NoResponse
    /\ response.capabilities # << >>
    /\ result = Err("Credentials", CredentialsError("approve"))


\* how often the refspec is in the list
Occurrences(refspecs, spec) == Cardinality({ j \in DOMAIN refspecs : refspecs[j] = spec })

\* the index ranges of the mappings of the returned RefMap, and the refspec
\* an Implicit index stands for
IndexRangesHold ==
    LET mappings == result.value.mappings
        extras == result.value.extra_refspecs
    IN  /\ Len(mappings) = Len(matched)
        /\ \A k \in DOMAIN mappings :
              LET tagged == mappings[k].spec_index
              IN  /\ tagged.tag = "Implicit" =>
                        /\ tagged.index >= 0
                        /\ tagged.index < Len(extras)
                        /\ extras[tagged.index + 1] = args.specs[matched[k].spec_index + 1]
                  /\ tagged.tag = "ExplicitInRemote" =>
                        /\ tagged.index >= 0
                        /\ tagged.index < Len(args.fetch_specs)

\* C22 as stated: the index ranges hold and the tag refspec is in the
\* extra_refspecs of the returned RefMap at most once
C22_AsStated ==
    (RefMapReturned /\ result.tag = "Ok") =>
        /\ IndexRangesHold
        /\ Occurrences(result.value.extra_refspecs, TagSpec) <= 1

\* C22: in a returned RefMap an Implicit index lies within extra_refspecs and
\* names the refspec the mapping came from, an Explicit index lies within
\* the configured fetch specs, and extra_refspecs is the caller's list with
\* the tag refspec appended once when the tag policy yields one and the
\* caller's list does not hold it, and the caller's list unchanged otherwise
C22_IndexRangesAndTagSpecAppendedOnce ==
    (RefMapReturned /\ result.tag = "Ok") =>
        LET extras == result.value.extra_refspecs
            given == args.given_extra_refspecs
            appended == args.fetch_tags # "None" /\ Occurrences(given, TagSpec) = 0
        IN  /\ IndexRangesHold
            /\ extras = IF appended THEN given \o << TagSpec >> ELSE given
            /\ Occurrences(extras, TagSpec) =
                  Occurrences(given, TagSpec) + (IF appended THEN 1 ELSE 0)

C22_Witness ==
    /\ RefMapReturned
    /\ result.tag = "Ok"
    /\ args.fetch_tags = "Included"
    /\ args.given_extra_refspecs = << TagSpec >>
    /\ result.value.extra_refspecs = << TagSpec >>
    /\ Len(args.fetch_specs) = 2
    /\ \E k \in DOMAIN result.value.mappings :
          result.value.mappings[k].spec_index = [tag |-> "Implicit", index |-> 0]
    /\ \E k \in DOMAIN result.value.mappings :
          result.value.mappings[k].spec_index.tag = "ExplicitInRemote"

=============================================================================
